---- MODULE Spec2Model ----
(***************************************************************************)
(* A model of the distributed-logs repository.                             *)
(*                                                                         *)
(* The repository holds several programs that share the vocabulary of the  *)
(* commit log:                                                             *)
(*   "http"  the in-memory Log of package server (Append, Read under a     *)
(*           sync.RWMutex), called concurrently;                           *)
(*   "log"   the segmented Log of package log (store, index, segment,      *)
(*           log), exercised by internal/log/log_test.go;                  *)
(*   "repl"  the Replicator of package log (Join, Leave, Close and the     *)
(*           per-peer replicate goroutine);                                *)
(*   "mesh"  two nodes whose Replicators replicate each other;             *)
(*   "grpc"  the gRPC service facade with its Authorizer;                  *)
(*   "disc"  the Membership of package discovery and its event handler;    *)
(*   "web"   the HTTP handlers of package server.                          *)
(* The variable prog, chosen once in Init, says which of them a behaviour  *)
(* runs; the variables of the others keep their initial values.            *)
(***************************************************************************)
EXTENDS Integers, Sequences, FiniteSets, TLC

VARIABLES
    prog,       \* which program the behaviour runs
    \* ---- package server: the in-memory Log (src/unnamed/part_001)
    records,    \* Log.records
    mu,         \* Log.mu: [w |-> the writer holding it or "none", r |-> the readers holding it]
    pc,         \* each caller's position inside Append / Read
    req,        \* each caller's arguments: the Record r of Append (and, ghost, the
                \* Offset it was given with), the offset of Read
    ret,        \* what each caller's last call returned
    acked,      \* ghost: the completed Appends, in completion order
    \* ---- package log: the segmented Log (exercised by src/internal/log/log_test.go)
    cfg,        \* Log.Config.Segment: [MaxStoreBytes, MaxIndexBytes]
    dir,        \* Log.Dir: base offset -> the segment's .store and .index files
    segments,   \* Log.segments, the last one being the active segment
    logOpen,    \* FALSE once Close has closed the file handles
    logRet,     \* what the last call on the Log returned
    logAcked,   \* ghost: the successful Appends, in order
    logCalls,   \* ghost: the calls made on the Log, counted, and the last Truncate
    \* ---- package log: the Replicator (src/internal/log/log_test.go, lines 104 to 238)
    servers,    \* Replicator.servers: peer name -> its stop channel
    closed,     \* Replicator.closed
    closeCh,    \* Replicator.close: the number of times it has been closed
    stopChs,    \* every stop channel made by Join: the number of times it has been closed
    tasks,      \* every replicate goroutine started, with its receiver goroutine
    \* ---- two nodes that replicate each other (Replicator.replicate on each)
    meshLog,    \* each node's local log: the payloads, by offset
    meshCursor, \* each node's replicate goroutine: records received from the peer's stream
    meshHand,   \* each node's replicate goroutine: the record received and not yet produced
    meshClient, \* the number of records clients have produced, on either node
    \* ---- package server: the gRPC service facade over a commit log and an Authorizer
    srvLog,     \* Config.CommitLog: the records, by offset
    srvRet,     \* what the last Produce or Consume call returned, and to whom
    prodStream, \* a ProduceStream: its caller, the records sent, the replies received
    consStream, \* a ConsumeStream: its caller, its position, the records received
    \* ---- package discovery: Membership (src/internal/server/http.go, lines 93 to 213)
    mship,      \* Membership: the events received on m.events (ghost: all of them, in
                \* order), the loop's position in the last one, the Handler calls made
    handler,    \* Membership.handler: which Handler it is, and the peers it tracks
    \* ---- package server: the HTTP handlers (src/internal/server/http.go, lines 11 to 80)
    webLog,     \* httpServer.Log: its records
    webResp     \* the last request and what its handler wrote to the ResponseWriter

memVars == <<records, mu, pc, req, ret, acked>>

logVars == <<cfg, dir, segments, logOpen, logRet, logAcked, logCalls>>

replVars == <<servers, closed, closeCh, stopChs, tasks>>

meshVars == <<meshLog, meshCursor, meshHand, meshClient>>

\* The variables of the programs added to the first three.
srvVars == <<srvLog, srvRet, prodStream, consStream>>

discVars == <<mship, handler>>

\* The variables of the programs added after the service facade.
webVars == <<webLog, webResp>>

moreVars == <<discVars, webVars>>

restVars == <<meshVars, srvVars, moreVars>>

vars == <<prog, records, mu, pc, req, ret, acked,
          cfg, dir, segments, logOpen, logRet, logAcked, logCalls,
          servers, closed, closeCh, stopChs, tasks,
          meshLog, meshCursor, meshHand, meshClient,
          srvLog, srvRet, prodStream, consStream,
          mship, handler, webLog, webResp>>

----------------------------------------------------------------------------
\* Bounds of the model.

\* Appends started on the in-memory Log.
MaxRecords == 3

\* Calls of Append made on the segmented Log.
MaxAppends == 3

\* Calls other than Append and Read made on the segmented Log.
MaxOtherCalls == 2

\* replicate goroutines started by Join.
MaxTasks == 2

\* Records produced by clients on the two nodes that replicate each other.
MaxMeshClient == 2

\* Records a node's log may hold before the model stops appending to it.
MaxMeshLen == 4

\* Records produced on the server by Produce calls.
MaxProduced == 3

\* Records sent on a ProduceStream.
MaxStreamSends == 2

\* Events the membership library sends on m.events.
MaxEvents == 2

\* Members one event carries.
MaxMembers == 2

\* Records the produce handler appends.
MaxWebRecords == 3

----------------------------------------------------------------------------
\* Values shared by the programs.

\* Record payloads: byte strings of different lengths.
Values == {<<1>>, <<2, 3>>}

\* The Offset field a caller may have put in the Record it passes.
CallerOffsets == {0, 7}

Procs == {"p1", "p2"}

NoRecord == [Value |-> <<>>, Offset |-> 0]

NoRet == [op |-> "none", kind |-> "none", offset |-> 0, record |-> NoRecord]

----------------------------------------------------------------------------
\* package server: Log (src/unnamed/part_001)

NewLog == <<>>

\* A Lock that excludes nobody (Append without l.mu.Lock()).
CanLockAlways(m) == TRUE

\* sync.RWMutex: Lock waits until no writer and no reader holds it.
CanLock(m) == m.w = "none" /\ m.r = {}

\* sync.RWMutex: RLock waits until no writer holds it.
CanRLock(m) == m.w = "none"

\* An Append that keeps the Offset its caller gave.
StampKeep(r, recs) == r

\* r.Offset = len(l.records)
Stamp(r, recs) == [r EXCEPT !.Offset = Len(recs)]

\* An index that is off by one: the record after the one asked for, when there is one.
FetchNext(recs, offset) == recs[IF offset + 2 <= Len(recs) THEN offset + 2 ELSE offset + 1]

\* l.records[offset]
Fetch(recs, offset) == recs[offset + 1]

\* offset >= len(l.records): the only check Read makes.
OffsetNotFound(recs, offset) == offset >= Len(recs)

\* l.records[offset]: Go panics on an index below 0 (or beyond the length).
IndexPanics(recs, offset) == offset < 0 \/ offset >= Len(recs)

Started == Len(records) + Cardinality({p \in Procs : pc[p] \in {"AppendAssign", "AppendStore"}})

\* A caller enters Append(r): l.mu.Lock().
AppendLock(p) ==
    /\ prog = "http"
    /\ pc[p] = "idle"
    /\ Started < MaxRecords
    /\ CanLock(mu)
    /\ \E v \in Values, o \in CallerOffsets :
          req' = [req EXCEPT ![p] = [r |-> [Value |-> v, Offset |-> o], offset |-> 0,
                                     given |-> o]]
    /\ mu' = [mu EXCEPT !.w = p]
    /\ pc' = [pc EXCEPT ![p] = "AppendAssign"]
    /\ ret' = [ret EXCEPT ![p] = NoRet]
    /\ UNCHANGED <<prog, records, acked>>
    /\ UNCHANGED <<logVars, replVars, restVars>>

\* r.Offset = len(l.records)
AppendAssign(p) ==
    /\ prog = "http"
    /\ pc[p] = "AppendAssign"
    /\ req' = [req EXCEPT ![p].r = Stamp(req[p].r, records)]
    /\ pc' = [pc EXCEPT ![p] = "AppendStore"]
    /\ UNCHANGED <<prog, records, mu, ret, acked>>
    /\ UNCHANGED <<logVars, replVars, restVars>>

\* l.records = append(l.records, r)
AppendStore(p) ==
    /\ prog = "http"
    /\ pc[p] = "AppendStore"
    /\ records' = Append(records, req[p].r)
    /\ pc' = [pc EXCEPT ![p] = "AppendReturn"]
    /\ UNCHANGED <<prog, mu, req, ret, acked>>
    /\ UNCHANGED <<logVars, replVars, restVars>>

\* return r.Offset, nil; the deferred l.mu.Unlock() runs.
AppendReturn(p) ==
    /\ prog = "http"
    /\ pc[p] = "AppendReturn"
    /\ ret' = [ret EXCEPT ![p] =
                 [op |-> "Append", kind |-> "ok", offset |-> req[p].r.Offset, record |-> NoRecord]]
    /\ acked' = Append(acked, [offset |-> req[p].r.Offset, value |-> req[p].r.Value,
                                given |-> req[p].given])
    /\ mu' = [mu EXCEPT !.w = IF mu.w = p THEN "none" ELSE mu.w]
    /\ pc' = [pc EXCEPT ![p] = "idle"]
    /\ UNCHANGED <<prog, records, req>>
    /\ UNCHANGED <<logVars, replVars, restVars>>

\* What Read(offset) returns on records recs.
ReadOutcome(recs, o) ==
    IF OffsetNotFound(recs, o)
      THEN [op |-> "Read", kind |-> "ErrorOffsetNotFound", offset |-> o, record |-> NoRecord]
    ELSE IF IndexPanics(recs, o)
      THEN [op |-> "Read", kind |-> "panic", offset |-> o, record |-> NoRecord]
    ELSE [op |-> "Read", kind |-> "ok", offset |-> o, record |-> Fetch(recs, o)]

\* A caller enters Read(offset): l.mu.RLock().
ReadLock(p) ==
    /\ prog = "http"
    /\ pc[p] = "idle"
    /\ CanRLock(mu)
    /\ \E o \in -1 .. MaxRecords :
          req' = [req EXCEPT ![p] = [r |-> NoRecord, offset |-> o, given |-> 0]]
    /\ mu' = [mu EXCEPT !.r = @ \cup {p}]
    /\ pc' = [pc EXCEPT ![p] = "ReadBody"]
    /\ ret' = [ret EXCEPT ![p] = NoRet]
    /\ UNCHANGED <<prog, records, acked>>
    /\ UNCHANGED <<logVars, replVars, restVars>>

\* The body of Read, then the deferred l.mu.RUnlock() (which also runs when
\* the index expression panics).
ReadBody(p) ==
    /\ prog = "http"
    /\ pc[p] = "ReadBody"
    /\ ret' = [ret EXCEPT ![p] = ReadOutcome(records, req[p].offset)]
    /\ mu' = [mu EXCEPT !.r = @ \ {p}]
    /\ pc' = [pc EXCEPT ![p] = "idle"]
    /\ UNCHANGED <<prog, records, req, acked>>
    /\ UNCHANGED <<logVars, replVars, restVars>>

MemNext ==
    \E p \in Procs :
        \/ AppendLock(p)
        \/ AppendAssign(p)
        \/ AppendStore(p)
        \/ AppendReturn(p)
        \/ ReadLock(p)
        \/ ReadBody(p)

MemInit ==
    /\ records = NewLog
    /\ mu = [w |-> "none", r |-> {}]
    /\ pc = [p \in Procs |-> "idle"]
    /\ req = [p \in Procs |-> [r |-> NoRecord, offset |-> 0, given |-> 0]]
    /\ ret = [p \in Procs |-> NoRet]
    /\ acked = <<>>

----------------------------------------------------------------------------
\* package log: store, index, segment and Log.  Their source files are not
\* part of the repository snapshot; the definitions below follow the design
\* document (sections 3 and 4.1 to 4.4) and the calls of log_test.go.

\* Store: width of the big-endian length prefix of an entry.
LenWidth == 4

\* Index: width of an entry's relative offset and of its position.
OffWidth == 4

PosWidth == 8

EntWidth == OffWidth + PosWidth

\* The segment size used when the configuration leaves it 0 ("large").
DefaultMaxStoreBytes == 1024

\* c.Segment.MaxIndexBytes = 64 in TestLog.
TestMaxIndexBytes == 64

TestConfig == [MaxStoreBytes |-> DefaultMaxStoreBytes, MaxIndexBytes |-> TestMaxIndexBytes]

\* The configurations explored: the one of TestLog; one whose segments fill by
\* store bytes; one whose segments fill by index entries; one with both small;
\* and one shaped like that of TestLog (whole entries and 4 bytes more), scaled
\* to two entries.
Configs ==
    { TestConfig,
      [MaxStoreBytes |-> 16, MaxIndexBytes |-> DefaultMaxStoreBytes],
      [MaxStoreBytes |-> DefaultMaxStoreBytes, MaxIndexBytes |-> 2 * EntWidth],
      [MaxStoreBytes |-> 8, MaxIndexBytes |-> 3 * EntWidth],
      [MaxStoreBytes |-> DefaultMaxStoreBytes, MaxIndexBytes |-> 2 * EntWidth + 4] }

RECURSIVE Pow(_, _)
Pow(b, e) == IF e = 0 THEN 1 ELSE b * Pow(b, e - 1)

\* binary.BigEndian.PutUint: n as w bytes, most significant first.
BigEndian(n, w) == [i \in 1 .. w |-> (n \div Pow(256, w - i)) % 256]

RECURSIVE FromBigEndian(_)
FromBigEndian(b) ==
    IF b = <<>> THEN 0
    ELSE 256 * FromBigEndian(SubSeq(b, 1, Len(b) - 1)) + b[Len(b)]

\* The serialized form of a Record: the payload, length-delimited, then the offset.
Marshal(r) == <<Len(r.Value)>> \o r.Value \o <<r.Offset>>

Unmarshal(b) == [Value |-> SubSeq(b, 2, 1 + b[1]), Offset |-> b[2 + b[1]]]

\* ---- Store

\* The bytes one Append adds to the store: [length prefix][payload].
StoreEntry(p) == BigEndian(Len(p), LenWidth) \o p

\* Store.Read(pos): the payload at pos, or an I/O error
\* when pos is past the write boundary.
StoreRead(file, pos) ==
    IF pos + LenWidth > Len(file) THEN [err |-> TRUE, p |-> <<>>]
    ELSE LET n == FromBigEndian(SubSeq(file, pos + 1, pos + LenWidth)) IN
         IF pos + LenWidth + n > Len(file) THEN [err |-> TRUE, p |-> <<>>]
         ELSE [err |-> FALSE, p |-> SubSeq(file, pos + LenWidth + 1, pos + LenWidth + n)]

\* ---- Index

NoEntry == [off |-> 0, pos |-> 0]

\* The n-th entry (from 1) of an index file: the file is pre-sized, so what
\* lies beyond the entries written reads as zero bytes.
IndexEntryAt(f, n) == IF n <= Len(f.index) THEN f.index[n] ELSE NoEntry

\* Index.Read(in) with size the index's effective size; in = -1 asks for the last entry.
IndexRead(f, size, in) ==
    IF size = 0 THEN [err |-> TRUE, e |-> NoEntry]
    ELSE LET n == IF in = -1 THEN size \div EntWidth ELSE in + 1 IN
         IF size < n * EntWidth THEN [err |-> TRUE, e |-> NoEntry]
         ELSE [err |-> FALSE, e |-> IndexEntryAt(f, n)]

\* Index.Write fails when the entry does not fit the configured capacity.
IndexFull(size, c) == size + EntWidth > c.MaxIndexBytes

\* ---- Segment

\* A recovery that takes the last index entry's offset for the next offset.
RecoverNextOffsetNoInc(f, base) ==
    LET last == IndexRead(f, f.indexLen, -1) IN
    IF last.err THEN base ELSE base + last.e.off

\* newSegment on files that may exist: nextOffset is recovered from the last
\* index entry, or is baseOffset when the index is empty.
RecoverNextOffset(f, base) ==
    LET last == IndexRead(f, f.indexLen, -1) IN
    IF last.err THEN base ELSE base + last.e.off + 1

\* The files of a segment as os.OpenFile creates them.
NewFiles == [store |-> <<>>, index |-> <<>>, indexLen |-> 0]

\* An index file once opened: grown to MaxIndexBytes (it is truncated back to
\* the size used when the index is closed).
Presized(f, c) == [f EXCEPT !.indexLen = c.MaxIndexBytes]

OpenSegment(f, base) ==
    [baseOffset |-> base, nextOffset |-> RecoverNextOffset(f, base),
     storeSize |-> Len(f.store), indexSize |-> f.indexLen]

\* Segment.IsMaxed
IsMaxed(s, c) == s.storeSize >= c.MaxStoreBytes \/ s.indexSize >= c.MaxIndexBytes

\* Segment.Read(off)
SegmentRead(s, f, off) ==
    LET ent == IndexRead(f, s.indexSize, off - s.baseOffset) IN
    IF ent.err THEN [err |-> TRUE, record |-> NoRecord]
    ELSE LET got == StoreRead(f.store, ent.e.pos) IN
         IF got.err THEN [err |-> TRUE, record |-> NoRecord]
         ELSE [err |-> FALSE, record |-> Unmarshal(got.p)]

\* ---- Log

InitialOffset == 0

ActiveSegment(segs) == segs[Len(segs)]

\* Log.LowestOffset
LowestOffset(segs) == IF segs = <<>> THEN 0 ELSE segs[1].baseOffset

\* Log.HighestOffset: an empty log reports 0.
HighestOffset(segs) ==
    IF segs = <<>> THEN 0
    ELSE LET off == ActiveSegment(segs).nextOffset IN
         IF off = 0 THEN 0 ELSE off - 1

\* The segment of Log.Read(off): the one whose range holds off, 0 when none does.
OwnerOf(segs, off) ==
    LET own == {i \in 1 .. Len(segs) :
                   segs[i].baseOffset <= off /\ off < segs[i].nextOffset} IN
    IF own = {} THEN 0 ELSE CHOOSE i \in own : \A j \in own : i <= j

\* What Log.Read(off) returns.
ReadResult(segs, d, off) ==
    LET i == OwnerOf(segs, off) IN
    IF i = 0
      THEN [op |-> "Read", kind |-> "ErrOffsetOutOfRange", offset |-> off, record |-> NoRecord]
    ELSE LET got == SegmentRead(segs[i], d[segs[i].baseOffset], off) IN
         IF got.err
           THEN [op |-> "Read", kind |-> "error", offset |-> off, record |-> NoRecord]
         ELSE [op |-> "Read", kind |-> "ok", offset |-> off, record |-> got.record]

\* A Truncate that also removes the segment whose highest offset is lowest.
BelowOrAtLowest(s, lowest) == s.nextOffset > s.baseOffset /\ s.nextOffset - 1 <= lowest

\* Log.Truncate removes a segment when its highest offset is below lowest.
BelowLowest(s, lowest) == s.nextOffset > s.baseOffset /\ s.nextOffset - 1 < lowest

RECURSIVE Concat(_)
Concat(ss) == IF ss = <<>> THEN <<>> ELSE Head(ss) \o Concat(Tail(ss))

\* Log.Reader: every segment's store, in the order of the segment list.
ReaderBytes(segs, d) ==
    Concat([i \in 1 .. Len(segs) |-> d[segs[i].baseOffset].store])

RECURSIVE SortedSeq(_)
SortedSeq(S) ==
    IF S = {} THEN <<>>
    ELSE LET m == CHOOSE x \in S : \A y \in S : x <= y IN <<m>> \o SortedSeq(S \ {m})

NoCalls == [appends |-> 0, others |-> 0, lowest |-> -1, after |-> 0, reopened |-> FALSE]

\* The ghost count of calls after one more call of kind op.
Called(op, arg) ==
    IF op = "Append" THEN [logCalls EXCEPT !.appends = @ + 1]
    ELSE IF op = "Truncate"
      THEN [logCalls EXCEPT !.others = @ + 1, !.lowest = arg, !.after = Len(logAcked)]
    ELSE [logCalls EXCEPT !.others = @ + 1]

LogRetOf(op, kind, off) == [op |-> op, kind |-> kind, offset |-> off, record |-> NoRecord]

\* Log.Append(record): roll over first when the active segment is maxed, then
\* Segment.Append: the record gets nextOffset, is marshalled and written to the
\* store, its position goes to the index, nextOffset is incremented.
LogAppend ==
    /\ prog = "log"
    /\ logOpen
    /\ logCalls.appends < MaxAppends
    /\ \E v \in Values, o \in CallerOffsets :
        /\ logCalls' = Called("Append", 0)
        /\ IF segments = <<>>
             THEN /\ logRet' = LogRetOf("Append", "error", 0)
                  /\ UNCHANGED <<segments, dir, logAcked>>
             ELSE
               LET roll == IsMaxed(ActiveSegment(segments), cfg)
                   base == ActiveSegment(segments).nextOffset
                   d1   == IF roll THEN [b \in DOMAIN dir \cup {base} |->
                                            IF b = base THEN Presized(NewFiles, cfg) ELSE dir[b]]
                           ELSE dir
                   segs == IF roll THEN Append(segments, OpenSegment(NewFiles, base))
                           ELSE segments
                   s    == ActiveSegment(segs)
                   cur  == s.nextOffset
                   p    == Marshal([Value |-> v, Offset |-> cur])
                   pos  == s.storeSize
                   s1   == [s EXCEPT !.storeSize = @ + Len(StoreEntry(p))]
                   d2   == [d1 EXCEPT ![s.baseOffset].store = @ \o StoreEntry(p)]
               IN
               IF IndexFull(s.indexSize, cfg)
                 THEN /\ segments' = [segs EXCEPT ![Len(segs)] = s1]
                      /\ dir' = d2
                      /\ logRet' = LogRetOf("Append", "error", 0)
                      /\ UNCHANGED logAcked
                 ELSE /\ segments' = [segs EXCEPT ![Len(segs)] =
                                        [s1 EXCEPT !.indexSize = @ + EntWidth,
                                                   !.nextOffset = @ + 1]]
                      /\ dir' = [d2 EXCEPT ![s.baseOffset].index =
                                    Append(@, [off |-> cur - s.baseOffset, pos |-> pos])]
                      /\ logRet' = LogRetOf("Append", "ok", cur)
                      /\ logAcked' = Append(logAcked, [offset |-> cur, value |-> v])
    /\ UNCHANGED <<prog, cfg, logOpen>>
    /\ UNCHANGED <<memVars, replVars, restVars>>

\* Log.Read(off)
LogRead ==
    /\ prog = "log"
    /\ logOpen
    /\ \E off \in 0 .. MaxAppends + 1 :
        logRet' = ReadResult(segments, dir, off)
    /\ UNCHANGED <<prog, cfg, dir, segments, logOpen, logAcked, logCalls>>
    /\ UNCHANGED <<memVars, replVars, restVars>>

\* Log.Truncate(lowest): the segments below lowest are removed, their files deleted.
LogTruncate ==
    /\ prog = "log"
    /\ logOpen
    /\ logCalls.others < MaxOtherCalls
    /\ \E lowest \in 0 .. MaxAppends + 1 :
        /\ logCalls' = Called("Truncate", lowest)
        /\ segments' = SelectSeq(segments, LAMBDA s : ~BelowLowest(s, lowest))
        /\ dir' = [b \in {b \in DOMAIN dir :
                            \A i \in 1 .. Len(segments) :
                                segments[i].baseOffset = b => ~BelowLowest(segments[i], lowest)}
                     |-> dir[b]]
        /\ logRet' = LogRetOf("Truncate", "ok", lowest)
    /\ UNCHANGED <<prog, cfg, logOpen, logAcked>>
    /\ UNCHANGED <<memVars, replVars, restVars>>

\* Log.Reader(), read to the end (io.ReadAll).
LogReader ==
    /\ prog = "log"
    /\ logOpen
    /\ logCalls.others < MaxOtherCalls
    /\ logCalls' = Called("Reader", 0)
    /\ logRet' = [op |-> "Reader", kind |-> "ok", offset |-> 0,
                  record |-> [Value |-> ReaderBytes(segments, dir), Offset |-> 0]]
    /\ UNCHANGED <<prog, cfg, dir, segments, logOpen, logAcked>>
    /\ UNCHANGED <<memVars, replVars, restVars>>

\* Log.Close: every segment's store and index are closed, every index file is
\* truncated to the size used.
LogClose ==
    /\ prog = "log"
    /\ logOpen
    /\ logCalls.others < MaxOtherCalls
    /\ logCalls' = Called("Close", 0)
    /\ logOpen' = FALSE
    /\ logRet' = LogRetOf("Close", "ok", 0)
    /\ dir' = [b \in DOMAIN dir |->
                 IF \E i \in 1 .. Len(segments) : segments[i].baseOffset = b
                   THEN LET i == CHOOSE i \in 1 .. Len(segments) : segments[i].baseOffset = b
                        IN [dir[b] EXCEPT !.indexLen = segments[i].indexSize]
                   ELSE dir[b]]
    /\ UNCHANGED <<prog, cfg, segments, logAcked>>
    /\ UNCHANGED <<memVars, replVars, restVars>>

\* NewLog(dir, config) on the directory of a closed Log: a segment per pair of
\* files, in ascending base offset; a first segment when there is none.
NewLogOnDir ==
    /\ prog = "log"
    /\ ~logOpen
    /\ logOpen' = TRUE
    /\ logRet' = LogRetOf("NewLog", "ok", 0)
    /\ IF DOMAIN dir = {}
         THEN /\ segments' = <<OpenSegment(NewFiles, InitialOffset)>>
              /\ dir' = [b \in {InitialOffset} |-> Presized(NewFiles, cfg)]
         ELSE LET bases == SortedSeq(DOMAIN dir) IN
              /\ segments' = [i \in 1 .. Len(bases) |-> OpenSegment(dir[bases[i]], bases[i])]
              /\ dir' = [b \in DOMAIN dir |-> Presized(dir[b], cfg)]
    /\ logCalls' = [logCalls EXCEPT !.reopened = TRUE]
    /\ UNCHANGED <<prog, cfg, logAcked>>
    /\ UNCHANGED <<memVars, replVars, restVars>>

LogNext == LogAppend \/ LogRead \/ LogTruncate \/ LogReader \/ LogClose \/ NewLogOnDir

\* A Log just made by NewLog on an empty directory.
LogInit ==
    /\ cfg \in Configs
    /\ dir = [b \in {InitialOffset} |-> Presized(NewFiles, cfg)]
    /\ segments = <<OpenSegment(NewFiles, InitialOffset)>>
    /\ logOpen = TRUE
    /\ logRet = NoRet
    /\ logAcked = <<>>
    /\ logCalls = NoCalls

----------------------------------------------------------------------------
\* package log: Replicator (src/internal/log/log_test.go, lines 104 to 238)

Peers == {"peer1", "peer2"}

\* The payloads of the records a peer's ConsumeStream delivers from offset 0, in order.
PeerLog == <<(<<1>>), (<<2, 3>>)>>

NoPayload == <<>>

\* Join, Leave and Close hold r.mu from entry to return and never block while
\* holding it, so each is one step.  r.init() makes the map and the close
\* channel when they are nil; a nil map and an empty map read alike.

\* A lookup that never finds the peer.
NeverTracked(name) == FALSE

\* if _, ok := r.servers[name]; ok
Tracked(name) == name \in DOMAIN servers

\* The goroutine Join starts: go r.replicate(addr, stopCh)
NewTask(name, ch) ==
    [peer |-> name, stopCh |-> ch, pc |-> "dial", rpc |-> "none",
     n |-> 0, item |-> NoPayload, record |-> NoPayload, sent |-> <<>>,
     startedClosed |-> closed]

\* Replicator.Join(name, addr)
Join(name) ==
    /\ prog = "repl"
    /\ IF closed \/ Tracked(name)
         THEN UNCHANGED <<servers, stopChs, tasks>>
         ELSE /\ Len(tasks) < MaxTasks
              /\ stopChs' = Append(stopChs, 0)
              /\ servers' = [n \in DOMAIN servers \cup {name} |->
                               IF n = name THEN Len(stopChs) + 1 ELSE servers[n]]
              /\ tasks' = Append(tasks, NewTask(name, Len(stopChs) + 1))
    /\ UNCHANGED <<prog, closed, closeCh>>
    /\ UNCHANGED <<memVars, logVars, restVars>>

\* A Leave that closes the channel and forgets delete(r.servers, name).
LeaveKeepEntry(name) ==
    /\ prog = "repl"
    /\ IF name \in DOMAIN servers
         THEN stopChs' = [stopChs EXCEPT ![servers[name]] = @ + 1]
         ELSE UNCHANGED stopChs
    /\ UNCHANGED <<prog, servers, closed, closeCh, tasks>>
    /\ UNCHANGED <<memVars, logVars, restVars>>

\* Replicator.Leave(name)
Leave(name) ==
    /\ prog = "repl"
    /\ IF Tracked(name)
         THEN /\ stopChs' = [stopChs EXCEPT ![servers[name]] = @ + 1]
              /\ servers' = [n \in DOMAIN servers \ {name} |-> servers[n]]
         ELSE UNCHANGED <<servers, stopChs>>
    /\ UNCHANGED <<prog, closed, closeCh, tasks>>
    /\ UNCHANGED <<memVars, logVars, restVars>>

\* Replicator.Close()
Close ==
    /\ prog = "repl"
    /\ IF closed
         THEN UNCHANGED <<closed, closeCh, servers>>
         ELSE /\ closed' = TRUE
              /\ closeCh' = closeCh + 1
              /\ servers' = << >>
    /\ UNCHANGED <<prog, stopChs, tasks>>
    /\ UNCHANGED <<memVars, logVars, restVars>>

\* replicate: grpc.Dial(addr, ...), which may fail.
Dial(t) ==
    /\ prog = "repl"
    /\ tasks[t].pc = "dial"
    /\ \E ok \in BOOLEAN :
         tasks' = [tasks EXCEPT ![t].pc = IF ok THEN "consume" ELSE "done"]
    /\ UNCHANGED <<prog, servers, closed, closeCh, stopChs>>
    /\ UNCHANGED <<memVars, logVars, restVars>>

\* replicate: client.ConsumeStream(ctx, {Offset: 0}), which may fail; then the
\* receiver goroutine is started.
ConsumeStream(t) ==
    /\ prog = "repl"
    /\ tasks[t].pc = "consume"
    /\ \E ok \in BOOLEAN :
         tasks' = [tasks EXCEPT ![t].pc = IF ok THEN "loop" ELSE "done",
                                ![t].rpc = IF ok THEN "recv" ELSE "none"]
    /\ UNCHANGED <<prog, servers, closed, closeCh, stopChs>>
    /\ UNCHANGED <<memVars, logVars, restVars>>

\* The receiver goroutine: stream.Recv() returns the next record of the peer,
\* or an error (always, once replicate has returned and closed the connection).
Recv(t) ==
    /\ prog = "repl"
    /\ tasks[t].rpc = "recv"
    /\ \/ /\ tasks[t].pc # "done"
          /\ tasks[t].n < Len(PeerLog)
          /\ tasks' = [tasks EXCEPT ![t].rpc = "send", ![t].item = PeerLog[tasks[t].n + 1],
                                    ![t].n = @ + 1]
       \/ tasks' = [tasks EXCEPT ![t].rpc = "done"]
    /\ UNCHANGED <<prog, servers, closed, closeCh, stopChs>>
    /\ UNCHANGED <<memVars, logVars, restVars>>

\* select: case <-r.close
SelectClose(t) ==
    /\ prog = "repl"
    /\ tasks[t].pc = "loop"
    /\ closeCh > 0
    /\ tasks' = [tasks EXCEPT ![t].pc = "done"]
    /\ UNCHANGED <<prog, servers, closed, closeCh, stopChs>>
    /\ UNCHANGED <<memVars, logVars, restVars>>

\* select: case <-stopCh
SelectStop(t) ==
    /\ prog = "repl"
    /\ tasks[t].pc = "loop"
    /\ stopChs[tasks[t].stopCh] > 0
    /\ tasks' = [tasks EXCEPT ![t].pc = "done"]
    /\ UNCHANGED <<prog, servers, closed, closeCh, stopChs>>
    /\ UNCHANGED <<memVars, logVars, restVars>>

\* A receive that leaves the record on the channel, to be taken again.
SelectRecordAgain(t) ==
    /\ prog = "repl"
    /\ tasks[t].pc = "loop"
    /\ tasks[t].rpc = "send"
    /\ tasks' = [tasks EXCEPT ![t].pc = "produce", ![t].record = tasks[t].item]
    /\ UNCHANGED <<prog, servers, closed, closeCh, stopChs>>
    /\ UNCHANGED <<memVars, logVars, restVars>>

\* select: case record := <-records, the receiver being blocked on its send.
SelectRecord(t) ==
    /\ prog = "repl"
    /\ tasks[t].pc = "loop"
    /\ tasks[t].rpc = "send"
    /\ tasks' = [tasks EXCEPT ![t].pc = "produce", ![t].rpc = "recv",
                              ![t].record = tasks[t].item, ![t].item = NoPayload]
    /\ UNCHANGED <<prog, servers, closed, closeCh, stopChs>>
    /\ UNCHANGED <<memVars, logVars, restVars>>

\* r.LocalServer.Produce(ctx, {Record: record}), which may fail.
Produce(t) ==
    /\ prog = "repl"
    /\ tasks[t].pc = "produce"
    /\ \/ tasks' = [tasks EXCEPT ![t].pc = "loop", ![t].record = NoPayload,
                                  ![t].sent = Append(@, tasks[t].record)]
       \/ tasks' = [tasks EXCEPT ![t].pc = "done", ![t].record = NoPayload]
    /\ UNCHANGED <<prog, servers, closed, closeCh, stopChs>>
    /\ UNCHANGED <<memVars, logVars, restVars>>

ReplNext ==
    \/ \E name \in Peers : Join(name) \/ Leave(name)
    \/ Close
    \/ \E t \in 1 .. Len(tasks) :
         \/ Dial(t)
         \/ ConsumeStream(t)
         \/ Recv(t)
         \/ SelectClose(t)
         \/ SelectStop(t)
         \/ SelectRecord(t)
         \/ Produce(t)

\* A Replicator as declared: no peer, not closed.
ReplInit ==
    /\ servers = << >>
    /\ closed = FALSE
    /\ closeCh = 0
    /\ stopChs = << >>
    /\ tasks = << >>

----------------------------------------------------------------------------
\* Two nodes, each having Joined the other: on each node one goroutine of
\* Replicator.replicate (src/internal/log/log_test.go, lines 180 to 222) that
\* meets no error and is not stopped.  The peer's ConsumeStream and the local
\* Produce are those of the service facade (design document, section 4.6): the
\* stream delivers the peer's records from offset 0 on, also those appended
\* after it was opened; Produce appends to the local log.

Nodes == {"n1", "n2"}

PeerOf(n) == IF n = "n1" THEN "n2" ELSE "n1"

\* A client's Produce on node n.
ClientProduce(n) ==
    /\ prog = "mesh"
    /\ meshClient < MaxMeshClient
    /\ Len(meshLog[n]) < MaxMeshLen
    /\ \E v \in Values : meshLog' = [meshLog EXCEPT ![n] = Append(@, v)]
    /\ meshClient' = meshClient + 1
    /\ UNCHANGED <<prog, meshCursor, meshHand>>
    /\ UNCHANGED <<memVars, logVars, replVars, srvVars, moreVars>>

\* The receiver goroutine of node n: stream.Recv() returns the peer's next
\* record, which the loop takes from the records channel.
MeshRecv(n) ==
    /\ prog = "mesh"
    /\ meshHand[n] = NoPayload
    /\ meshCursor[n] < Len(meshLog[PeerOf(n)])
    /\ meshHand' = [meshHand EXCEPT ![n] = meshLog[PeerOf(n)][meshCursor[n] + 1]]
    /\ meshCursor' = [meshCursor EXCEPT ![n] = @ + 1]
    /\ UNCHANGED <<prog, meshLog, meshClient>>
    /\ UNCHANGED <<memVars, logVars, replVars, srvVars, moreVars>>

\* The loop of node n: r.LocalServer.Produce(ctx, {Record: record}).
MeshProduce(n) ==
    /\ prog = "mesh"
    /\ meshHand[n] # NoPayload
    /\ Len(meshLog[n]) < MaxMeshLen
    /\ meshLog' = [meshLog EXCEPT ![n] = Append(@, meshHand[n])]
    /\ meshHand' = [meshHand EXCEPT ![n] = NoPayload]
    /\ UNCHANGED <<prog, meshCursor, meshClient>>
    /\ UNCHANGED <<memVars, logVars, replVars, srvVars, moreVars>>

MeshNext == \E n \in Nodes : ClientProduce(n) \/ MeshRecv(n) \/ MeshProduce(n)

\* Two nodes with empty logs, each streaming the other's log from offset 0.
MeshInit ==
    /\ meshLog = [n \in Nodes |-> <<>>]
    /\ meshCursor = [n \in Nodes |-> 0]
    /\ meshHand = [n \in Nodes |-> NoPayload]
    /\ meshClient = 0

----------------------------------------------------------------------------
\* package auth: Authorizer (src/unnamed/part_000), and package server: the
\* gRPC service facade, as set up and called by the server tests
\* (src/unnamed/part_002).  The facade's source file is not part of the
\* repository snapshot; its definitions follow the design document (sections
\* 4.6, 5 and 6).  Its commit log assigns offsets 0, 1, 2, ... and is never
\* truncated.

\* The identities of the two client certificates of the tests.
Subjects == {"root", "nobody"}

ObjectWildcard == "*"

ProduceAction == "produce"

ConsumeAction == "consume"

\* The policy of the tests: root may produce and consume, nobody may do neither.
Policy == {<<"root", ObjectWildcard, ProduceAction>>, <<"root", ObjectWildcard, ConsumeAction>>}

\* a.enforcer.Enforce(subject, object, action): the policy's verdict, or an
\* error of the policy engine itself.
Enforce(subject, object, action, fails) ==
    IF fails THEN [valid |-> FALSE, err |-> "EnforceError"]
    ELSE [valid |-> <<subject, object, action>> \in Policy, err |-> "nil"]

\* An Authorize that lets the caller through whatever the verdict.
AuthorizeAll(subject, object, action, fails) ==
    LET e == Enforce(subject, object, action, fails) IN
    IF e.err # "nil" THEN e.err ELSE "nil"

\* Authorizer.Authorize(subject, object, action)
Authorize(subject, object, action, fails) ==
    LET e == Enforce(subject, object, action, fails) IN
    IF e.err # "nil" THEN e.err
    ELSE IF ~e.valid THEN "PermissionDenied"
    ELSE "nil"

\* CommitLog.Append(record)
SrvAppend(log, v) == Append(log, [Value |-> v, Offset |-> Len(log)])

\* CommitLog.Read(offset)
SrvRead(log, off) ==
    IF off < Len(log) THEN [err |-> "nil", record |-> log[off + 1]]
    ELSE [err |-> "ErrOffsetOutOfRange", record |-> NoRecord]

NoSrvRet ==
    [op |-> "none", subject |-> "none", fails |-> FALSE, err |-> "nil", nilResp |-> TRUE,
     offset |-> 0, record |-> NoRecord]

\* The records of the log that came in on the ProduceStream.
StreamProduced(ps) == Len(ps.replies) + (IF ps.st = "send" THEN 1 ELSE 0)

\* grpcServer.Produce(ctx, req): authorize, then append.
SrvProduce(subject) ==
    /\ prog = "grpc"
    /\ Len(srvLog) - StreamProduced(prodStream) < MaxProduced
    /\ \E v \in Values, fails \in BOOLEAN :
        LET err == Authorize(subject, ObjectWildcard, ProduceAction, fails) IN
        IF err # "nil"
          THEN /\ srvRet' = [NoSrvRet EXCEPT !.op = "Produce", !.subject = subject,
                                             !.fails = fails, !.err = err]
               /\ UNCHANGED srvLog
          ELSE /\ srvLog' = SrvAppend(srvLog, v)
               /\ srvRet' = [NoSrvRet EXCEPT !.op = "Produce", !.subject = subject,
                                             !.nilResp = FALSE, !.offset = Len(srvLog)]
    /\ UNCHANGED <<prog, prodStream, consStream>>
    /\ UNCHANGED <<memVars, logVars, replVars, meshVars, moreVars>>

\* grpcServer.Consume(ctx, req): authorize, then read.
SrvConsume(subject) ==
    /\ prog = "grpc"
    /\ \E off \in 0 .. MaxProduced, fails \in BOOLEAN :
        LET err == Authorize(subject, ObjectWildcard, ConsumeAction, fails)
            got == SrvRead(srvLog, off) IN
        IF err # "nil"
          THEN srvRet' = [NoSrvRet EXCEPT !.op = "Consume", !.subject = subject,
                                          !.fails = fails, !.err = err, !.offset = off]
          ELSE IF got.err # "nil"
            THEN srvRet' = [NoSrvRet EXCEPT !.op = "Consume", !.subject = subject,
                                            !.err = got.err, !.offset = off]
          ELSE srvRet' = [NoSrvRet EXCEPT !.op = "Consume", !.subject = subject,
                                          !.nilResp = FALSE, !.offset = off,
                                          !.record = got.record]
    /\ UNCHANGED <<prog, srvLog, prodStream, consStream>>
    /\ UNCHANGED <<memVars, logVars, replVars, meshVars, moreVars>>

NoProdStream ==
    [st |-> "none", subject |-> "none", sent |-> <<>>, replies |-> <<>>, off |-> 0,
     err |-> "nil"]

\* client.ProduceStream(ctx)
ProduceStreamOpen(subject) ==
    /\ prog = "grpc"
    /\ prodStream.st = "none"
    /\ prodStream' = [NoProdStream EXCEPT !.st = "recv", !.subject = subject]
    /\ UNCHANGED <<prog, srvLog, srvRet, consStream>>
    /\ UNCHANGED <<memVars, logVars, replVars, meshVars, moreVars>>

\* The client's stream.Send(&api.ProduceRequest{Record: record})
ProduceStreamSend ==
    /\ prog = "grpc"
    /\ prodStream.st \in {"recv", "send"}
    /\ Len(prodStream.sent) < MaxStreamSends
    /\ \E v \in Values : prodStream' = [prodStream EXCEPT !.sent = Append(@, v)]
    /\ UNCHANGED <<prog, srvLog, srvRet, consStream>>
    /\ UNCHANGED <<memVars, logVars, replVars, meshVars, moreVars>>

\* grpcServer.ProduceStream, one turn of its loop up to the reply: stream.Recv()
\* returns the next request, then s.Produce(ctx, req); an error ends the stream.
ProduceStreamServe ==
    /\ prog = "grpc"
    /\ prodStream.st = "recv"
    /\ Len(prodStream.replies) < Len(prodStream.sent)
    /\ \E fails \in BOOLEAN :
        LET err == Authorize(prodStream.subject, ObjectWildcard, ProduceAction, fails)
            v   == prodStream.sent[Len(prodStream.replies) + 1] IN
        IF err # "nil"
          THEN /\ prodStream' = [prodStream EXCEPT !.st = "failed", !.err = err]
               /\ UNCHANGED srvLog
          ELSE /\ srvLog' = SrvAppend(srvLog, v)
               /\ prodStream' = [prodStream EXCEPT !.st = "send", !.off = Len(srvLog)]
    /\ UNCHANGED <<prog, srvRet, consStream>>
    /\ UNCHANGED <<memVars, logVars, replVars, meshVars, moreVars>>

\* A reply that carries the log's highest offset at the time of the reply.
ProduceStreamReplyHighest ==
    /\ prog = "grpc"
    /\ prodStream.st = "send"
    /\ prodStream' = [prodStream EXCEPT !.st = "recv", !.replies = Append(@, Len(srvLog) - 1)]
    /\ UNCHANGED <<prog, srvLog, srvRet, consStream>>
    /\ UNCHANGED <<memVars, logVars, replVars, meshVars, moreVars>>

\* grpcServer.ProduceStream: stream.Send(res), which the client's stream.Recv() receives.
ProduceStreamReply ==
    /\ prog = "grpc"
    /\ prodStream.st = "send"
    /\ prodStream' = [prodStream EXCEPT !.st = "recv", !.replies = Append(@, prodStream.off)]
    /\ UNCHANGED <<prog, srvLog, srvRet, consStream>>
    /\ UNCHANGED <<memVars, logVars, replVars, meshVars, moreVars>>

NoConsStream ==
    [st |-> "none", subject |-> "none", start |-> 0, next |-> 0, got |-> <<>>,
     cancelled |-> FALSE, err |-> "nil", openLen |-> 0]

\* client.ConsumeStream(ctx, &api.ConsumeRequest{Offset: start})
ConsumeStreamOpen(subject) ==
    /\ prog = "grpc"
    /\ consStream.st = "none"
    /\ \E start \in 0 .. MaxProduced :
          consStream' = [NoConsStream EXCEPT !.st = "run", !.subject = subject,
                                             !.start = start, !.next = start,
                                             !.openLen = Len(srvLog)]
    /\ UNCHANGED <<prog, srvLog, srvRet, prodStream>>
    /\ UNCHANGED <<memVars, logVars, replVars, meshVars, moreVars>>

\* A turn that, finding the offset not yet written, fails the stream.
ConsumeStreamServeOrFail ==
    /\ prog = "grpc"
    /\ consStream.st = "run"
    /\ ~consStream.cancelled
    /\ \E fails \in BOOLEAN :
        LET err == Authorize(consStream.subject, ObjectWildcard, ConsumeAction, fails)
            got == SrvRead(srvLog, consStream.next) IN
        IF err # "nil" \/ got.err # "nil"
          THEN consStream' = [consStream EXCEPT !.st = "failed",
                                                !.err = IF err # "nil" THEN err ELSE got.err]
          ELSE consStream' = [consStream EXCEPT !.got = Append(@, got.record),
                                                !.next = @ + 1]
    /\ UNCHANGED <<prog, srvLog, srvRet, prodStream>>
    /\ UNCHANGED <<memVars, logVars, replVars, meshVars, moreVars>>

\* grpcServer.ConsumeStream, one turn of its loop when the stream is not
\* cancelled: s.Consume(ctx, req); a record is sent and the offset advanced; an
\* offset not yet written is tried again (the turn changes nothing, so the
\* stream waits); any other error ends the stream.
ConsumeStreamServe ==
    /\ prog = "grpc"
    /\ consStream.st = "run"
    /\ ~consStream.cancelled
    /\ \E fails \in BOOLEAN :
        LET err == Authorize(consStream.subject, ObjectWildcard, ConsumeAction, fails)
            got == SrvRead(srvLog, consStream.next) IN
        /\ err # "nil" \/ got.err = "nil"
        /\ IF err # "nil"
             THEN consStream' = [consStream EXCEPT !.st = "failed", !.err = err]
             ELSE consStream' = [consStream EXCEPT !.got = Append(@, got.record),
                                                   !.next = @ + 1]
    /\ UNCHANGED <<prog, srvLog, srvRet, prodStream>>
    /\ UNCHANGED <<memVars, logVars, replVars, meshVars, moreVars>>

\* The client cancels the stream's context.
ConsumeStreamCancel ==
    /\ prog = "grpc"
    /\ consStream.st = "run"
    /\ ~consStream.cancelled
    /\ consStream' = [consStream EXCEPT !.cancelled = TRUE]
    /\ UNCHANGED <<prog, srvLog, srvRet, prodStream>>
    /\ UNCHANGED <<memVars, logVars, replVars, meshVars, moreVars>>

\* grpcServer.ConsumeStream: case <-stream.Context().Done(): return nil
ConsumeStreamDone ==
    /\ prog = "grpc"
    /\ consStream.st = "run"
    /\ consStream.cancelled
    /\ consStream' = [consStream EXCEPT !.st = "done"]
    /\ UNCHANGED <<prog, srvLog, srvRet, prodStream>>
    /\ UNCHANGED <<memVars, logVars, replVars, meshVars, moreVars>>

\* Produce and Consume calls.
UnaryNext == \E subject \in Subjects : SrvProduce(subject) \/ SrvConsume(subject)

\* A ProduceStream, with Produce calls beside it.
ProduceStreamNext ==
    \/ \E subject \in Subjects : SrvProduce(subject) \/ ProduceStreamOpen(subject)
    \/ ProduceStreamSend
    \/ ProduceStreamServe
    \/ ProduceStreamReply

\* A ConsumeStream, with Produce calls beside it.
ConsumeStreamNext ==
    \/ \E subject \in Subjects : SrvProduce(subject) \/ ConsumeStreamOpen(subject)
    \/ ConsumeStreamServe
    \/ ConsumeStreamCancel
    \/ ConsumeStreamDone

SrvNext == UnaryNext \/ ProduceStreamNext \/ ConsumeStreamNext

\* The server of the tests: an empty commit log, no call made, no stream open.
SrvInit ==
    /\ srvLog = <<>>
    /\ srvRet = NoSrvRet
    /\ prodStream = NoProdStream
    /\ consStream = NoConsStream

----------------------------------------------------------------------------
\* package discovery: Membership (src/internal/server/http.go, lines 93 to 213).
\* serf sends its events on the channel m.events; the goroutine started by
\* setupSerf, eventHandler, receives them one by one and calls the Handler for
\* the members of each.

\* Config.NodeName of the local node.
LocalName == "node0"

MemberNames == {LocalName} \cup Peers

\* serf.Member as the handler reads it: its Name and its Tags.
Member(name) ==
    [Name |-> name,
     Tags |-> [rpc_addr |-> CASE name = LocalName -> "127.0.0.1:8400"
                              [] name = "peer1"   -> "127.0.0.1:8401"
                              [] OTHER            -> "127.0.0.1:8402"]]

\* serf.EventMemberJoin, EventMemberLeave, EventMemberFailed, and one of the
\* types the switch has no case for.
EventTypes == {"member-join", "member-leave", "member-failed", "member-update"}

\* The Members of an event: one member or more, each once.
MemberLists ==
    UNION {{ms \in [1 .. n -> MemberNames] : \A i, j \in 1 .. n : ms[i] = ms[j] => i = j}
             : n \in 1 .. MaxMembers}

Events == {[Type |-> t, Members |-> [i \in DOMAIN ms |-> Member(ms[i])]]
             : t \in EventTypes, ms \in MemberLists}

\* The Handlers explored: the Replicator, whose Join and Leave return nil, and
\* a Handler whose calls all return an error.
HandlerKinds == {"replicator", "failing"}

\* A test for the local node that never finds it.
IsLocalNever(member) == FALSE

\* m.isLocal(member)
IsLocal(member) == LocalName = member.Name

\* handler.Join(name, addr): what the Handler h becomes and what it returns.
\* The Replicator (log_test.go, lines 146 to 164, never closed here) tracks
\* the peer when it does not yet.
HandlerJoin(h, name, addr) ==
    IF h.kind = "failing" THEN [h |-> h, err |-> TRUE]
    ELSE [h |-> [h EXCEPT !.servers = @ \cup {name}], err |-> FALSE]

\* handler.Leave(name); the Replicator (log_test.go, lines 167 to 177) drops the peer.
HandlerLeave(h, name) ==
    IF h.kind = "failing" THEN [h |-> h, err |-> TRUE]
    ELSE [h |-> [h EXCEPT !.servers = @ \ {name}], err |-> FALSE]

\* eventHandler: for e := range m.events.  The channel has no buffer, so serf's
\* send of e and the loop's receive are one step, taken when the loop is done
\* with the event before.  Then the switch on e.EventType(): an event of a type
\* without case is done with at once.
EventRecv ==
    /\ prog = "disc"
    /\ mship.member = 0
    /\ Len(mship.events) < MaxEvents
    /\ \E e \in Events :
          mship' = [mship EXCEPT !.events = Append(@, e),
                                 !.member = IF e.Type = "member-update" THEN 0 ELSE 1]
    /\ UNCHANGED <<prog, handler>>
    /\ UNCHANGED <<memVars, logVars, replVars, meshVars, srvVars, webVars>>

\* eventHandler, one turn of the loop over e.Members: the local member is
\* skipped; for another, handleJoin or handleLeave calls the Handler and logs
\* the error it returns; then the next member, or the next event.
HandleMember ==
    /\ prog = "disc"
    /\ mship.member > 0
    /\ LET e      == mship.events[Len(mship.events)]
           member == e.Members[mship.member]
           next   == IF mship.member < Len(e.Members) THEN mship.member + 1 ELSE 0
           res    == IF e.Type = "member-join"
                       THEN HandlerJoin(handler, member.Name, member.Tags.rpc_addr)
                       ELSE HandlerLeave(handler, member.Name)
           call   == [op   |-> IF e.Type = "member-join" THEN "Join" ELSE "Leave",
                      name |-> member.Name,
                      addr |-> IF e.Type = "member-join" THEN member.Tags.rpc_addr ELSE "",
                      err  |-> res.err]
       IN
       IF IsLocal(member)
         THEN /\ mship' = [mship EXCEPT !.member = next]
              /\ UNCHANGED handler
         ELSE /\ handler' = res.h
              /\ mship' = [mship EXCEPT !.member = next,
                                        !.calls = Append(@, call),
                                        !.logged = IF res.err THEN @ + 1 ELSE @]
    /\ UNCHANGED prog
    /\ UNCHANGED <<memVars, logVars, replVars, meshVars, srvVars, webVars>>

DiscNext == EventRecv \/ HandleMember

\* discovery.New(h, c): no event received yet; the Handler tracks no peer.
DiscInit ==
    /\ mship = [events |-> <<>>, member |-> 0, calls |-> <<>>, logged |-> 0]
    /\ handler \in {[kind |-> k, servers |-> {}] : k \in HandlerKinds}

----------------------------------------------------------------------------
\* package server: httpServer (src/internal/server/http.go, lines 11 to 80).
\* A handler reads its request, calls the Log once (Append and Read hold
\* l.mu for the whole call) and writes to its own ResponseWriter, so a
\* request is one step.

StatusOK == 200

StatusBadRequest == 400

StatusNotFound == 404

StatusInternalServerError == 500

\* The {offset} part of the path of a GET, as characters.
OffsetStrings ==
    {<<"0">>, <<"1">>, <<"2">>, <<"1", "0">>, <<"+", "1">>, <<"-", "1">>, <<"a">>, <<"1", "x">>}

Digits == [c \in {"0", "1", "2", "3", "4", "5", "6", "7", "8", "9"} |->
             CASE c = "0" -> 0 [] c = "1" -> 1 [] c = "2" -> 2 [] c = "3" -> 3
               [] c = "4" -> 4 [] c = "5" -> 5 [] c = "6" -> 6 [] c = "7" -> 7
               [] c = "8" -> 8 [] OTHER -> 9]

RECURSIVE ParseDigits(_)
ParseDigits(cs) ==
    IF cs = <<>> THEN 0
    ELSE 10 * ParseDigits(SubSeq(cs, 1, Len(cs) - 1)) + Digits[cs[Len(cs)]]

\* strconv.ParseInt(offset, 10, 64): an optional sign, then decimal digits and
\* nothing else.
ParseInt(cs) ==
    LET signed == cs # <<>> /\ cs[1] \in {"+", "-"}
        ds     == IF signed THEN Tail(cs) ELSE cs
    IN IF ds = <<>> \/ \E i \in 1 .. Len(ds) : ds[i] \notin DOMAIN Digits
         THEN [err |-> TRUE, index |-> 0]
         ELSE [err |-> FALSE,
               index |-> IF signed /\ cs[1] = "-" THEN 0 - ParseDigits(ds) ELSE ParseDigits(ds)]

\* The bodies of a POST: JSON that holds a record, or bytes that are no JSON.
Malformed == [json |-> FALSE, record |-> NoRecord]

Bodies ==
    {Malformed} \cup
    {[json |-> TRUE, record |-> [Value |-> v, Offset |-> o]] : v \in Values, o \in CallerOffsets}

\* json.NewDecoder(r.Body).Decode(&req)
Decode(body) ==
    IF body.json THEN [err |-> FALSE, req |-> [Record |-> body.record]]
    ELSE [err |-> TRUE, req |-> [Record |-> NoRecord]]

\* A ResponseWriter nothing has been written to.
NoResponse == [status |-> 0, body |-> <<>>, panicked |-> FALSE]

\* rw.WriteHeader(code): the first call sets the status, a later one is ignored.
WriteHeader(rw, code) == IF rw.status = 0 THEN [rw EXCEPT !.status = code] ELSE rw

\* rw.Write(b): writes the header with 200 when none was written yet.
Write(rw, b) == [WriteHeader(rw, StatusOK) EXCEPT !.body = Append(@, b)]

\* http.Error(rw, msg, code): WriteHeader(code), then the message as body.
HttpError(rw, msg, code) == Write(WriteHeader(rw, code), [error |-> msg])

\* json.NewEncoder(rw).Encode(res)
Encode(rw, res) == Write(rw, res)

\* What handleProduce does to the Log and writes, for a request body.
ProduceOutcome(recs, body) ==
    LET dec == Decode(body) IN
    IF dec.err
      THEN [records |-> recs, rw |-> HttpError(NoResponse, "decode", StatusBadRequest)]
      ELSE LET r == Stamp(dec.req.Record, recs) IN
           [records |-> Append(recs, r), rw |-> Encode(NoResponse, [Offset |-> r.Offset])]

\* What handleConsume writes, for the {offset} of the path.  After the
\* NotFound error is written the handler does not return: the err != nil test
\* that follows writes a second error.  A panic of Read ends the handler
\* with nothing written.
ConsumeOutcome(recs, offset) ==
    LET parsed == ParseInt(offset)
        read   == ReadOutcome(recs, parsed.index)
    IN
    IF parsed.err THEN HttpError(NoResponse, "syntax", StatusBadRequest)
    ELSE IF read.kind = "panic" THEN [NoResponse EXCEPT !.panicked = TRUE]
    ELSE LET rw1 == IF read.kind = "ErrorOffsetNotFound"
                      THEN HttpError(NoResponse, "offset not found", StatusNotFound)
                      ELSE NoResponse
         IN IF read.kind # "ok"
              THEN HttpError(rw1, "offset not found", StatusInternalServerError)
              ELSE Encode(rw1, [Record |-> read.record])

NoRequest == [handler |-> "none", body |-> Malformed, offset |-> <<>>, rw |-> NoResponse]

\* httpServer.handleProduce
HandleProduce ==
    /\ prog = "web"
    /\ \E body \in Bodies :
        LET out == ProduceOutcome(webLog, body) IN
        /\ Len(out.records) <= MaxWebRecords
        /\ webLog' = out.records
        /\ webResp' = [handler |-> "handleProduce", body |-> body, offset |-> <<>>,
                       rw |-> out.rw]
    /\ UNCHANGED prog
    /\ UNCHANGED <<memVars, logVars, replVars, meshVars, srvVars, discVars>>

\* httpServer.handleConsume
HandleConsume ==
    /\ prog = "web"
    /\ \E offset \in OffsetStrings :
        webResp' = [handler |-> "handleConsume", body |-> Malformed, offset |-> offset,
                    rw |-> ConsumeOutcome(webLog, offset)]
    /\ UNCHANGED <<prog, webLog>>
    /\ UNCHANGED <<memVars, logVars, replVars, meshVars, srvVars, discVars>>

WebNext == HandleProduce \/ HandleConsume

\* newHTTPServer: Log: NewLog()
WebInit ==
    /\ webLog = NewLog
    /\ webResp = NoRequest

----------------------------------------------------------------------------

Init ==
    /\ prog \in {"http", "log", "repl", "mesh", "grpc", "disc", "web"}
    /\ MemInit
    /\ LogInit
    /\ prog # "log" => cfg = TestConfig
    /\ ReplInit
    /\ MeshInit
    /\ SrvInit
    /\ DiscInit
    /\ prog # "disc" => handler.kind = "replicator"
    /\ WebInit

Next == MemNext \/ LogNext \/ ReplNext \/ MeshNext \/ SrvNext \/ DiscNext \/ WebNext

Spec == Init /\ [][Next]_vars

\* The two Logs alone.
InitLogs == Init /\ prog \in {"http", "log"}

NextLogs == MemNext \/ LogNext

SpecLogs == InitLogs /\ [][NextLogs]_vars

\* The segmented Log alone.
InitLog == Init /\ prog = "log"

SpecLog == InitLog /\ [][LogNext]_vars

\* The Replicator alone.
InitRepl == Init /\ prog = "repl"

SpecRepl == InitRepl /\ [][ReplNext]_vars

\* The two nodes that replicate each other; a goroutine that can receive or
\* produce does so in the end (the Go scheduler runs every runnable goroutine).
InitMesh == Init /\ prog = "mesh"

FairSpecMesh ==
    /\ InitMesh
    /\ [][MeshNext]_vars
    /\ \A n \in Nodes : WF_vars(MeshRecv(n)) /\ WF_vars(MeshProduce(n))

\* The service facade: its Produce and Consume calls alone; a ProduceStream
\* and a ConsumeStream, each with Produce calls beside it.  A stream handler
\* takes its next turn in the end, unless the policy engine keeps failing.
InitSrv == Init /\ prog = "grpc"

SpecSrv == InitSrv /\ [][UnaryNext]_vars

FairSpecProduceStream ==
    /\ InitSrv
    /\ [][ProduceStreamNext]_vars
    /\ WF_vars(ProduceStreamServe /\ prodStream'.err # "EnforceError")
    /\ WF_vars(ProduceStreamReply)

FairSpecConsumeStream ==
    /\ InitSrv
    /\ [][ConsumeStreamNext]_vars
    /\ WF_vars(ConsumeStreamServe /\ consStream'.err # "EnforceError")
    /\ WF_vars(ConsumeStreamDone)

\* The behaviours of Membership.
InitDisc == Init /\ prog = "disc"

SpecDisc == InitDisc /\ [][DiscNext]_vars

\* The behaviours of the HTTP handlers.
InitWeb == Init /\ prog = "web"

SpecWeb == InitWeb /\ [][WebNext]_vars

----------------------------------------------------------------------------
\* The claims.

Offsets == 0 .. MaxAppends + 1

\* C1: on a Log that starts empty and is only appended to (no Truncate), the
\* N-th Append to complete (from 0) is assigned offset N, whatever the
\* interleaving of concurrent callers; after N >= 1 appends HighestOffset is
\* N-1 and LowestOffset is 0.
C1_AppendOffsetsSequential ==
    /\ \A i \in 1 .. Len(acked) : acked[i].offset = i - 1
    /\ logCalls.lowest = -1 =>
          /\ \A i \in 1 .. Len(logAcked) : logAcked[i].offset = i - 1
          /\ Len(logAcked) >= 1 =>
                /\ HighestOffset(segments) = Len(logAcked) - 1
                /\ LowestOffset(segments) = 0

\* Two callers have both completed an Append on the in-memory Log.
C1_Witness ==
    /\ prog = "http"
    /\ \A p \in Procs : ret[p].op = "Append" /\ ret[p].kind = "ok"
    /\ Len(acked) >= 2

\* C2: Read(O) returns the payload of the record that Append assigned offset O,
\* now and after any number of later Appends (no Truncate being called).
C2_RoundTrip ==
    /\ \A i \in 1 .. Len(acked) :
          LET r == ReadOutcome(records, acked[i].offset) IN
          r.kind = "ok" /\ r.record.Value = acked[i].value
    /\ \A p \in Procs : \A i \in 1 .. Len(acked) :
          (ret[p].op = "Read" /\ ret[p].kind = "ok" /\ ret[p].offset = acked[i].offset)
             => ret[p].record.Value = acked[i].value
    /\ logCalls.lowest = -1 =>
          \A i \in 1 .. Len(logAcked) :
             /\ ReadResult(segments, dir, logAcked[i].offset).kind = "ok"
             /\ ReadResult(segments, dir, logAcked[i].offset).record.Value = logAcked[i].value
             /\ (logRet.op = "Read" /\ logRet.offset = logAcked[i].offset)
                   => logRet.kind = "ok" /\ logRet.record.Value = logAcked[i].value

\* A Read of offset 0 has returned after a later Append of a different payload.
C2_Witness ==
    /\ prog = "http"
    /\ Len(acked) >= 2
    /\ acked[1].value # acked[2].value
    /\ \E p \in Procs : ret[p].op = "Read" /\ ret[p].kind = "ok" /\ ret[p].offset = 0

\* C3: a Read of an offset outside the held range (at or above HighestOffset+1,
\* below LowestOffset, below 0) returns no record and fails with the
\* out-of-range error carrying the offset; it never crashes.
C3_OutOfRangeReadFails ==
    /\ \A p \in Procs :
          (ret[p].op = "Read" /\ (ret[p].offset < 0 \/ ret[p].offset >= Len(records)))
             => ret[p].kind = "ErrorOffsetNotFound" /\ ret[p].record = NoRecord
    /\ (logRet.op = "Read"
          /\ (logRet.offset >= HighestOffset(segments) + 1
                \/ logRet.offset < LowestOffset(segments)))
         => logRet = LogRetOf("Read", "ErrOffsetOutOfRange", logRet.offset)

\* The part of C3 that holds: on the segmented Log, and on the in-memory Log
\* for offsets that are not negative.
C3_NonNegativeOutOfRangeReadFails ==
    /\ \A p \in Procs :
          (ret[p].op = "Read" /\ ret[p].offset >= Len(records) /\ ret[p].offset >= 0)
             => ret[p].kind = "ErrorOffsetNotFound" /\ ret[p].record = NoRecord
    /\ (logRet.op = "Read"
          /\ (logRet.offset >= HighestOffset(segments) + 1
                \/ logRet.offset < LowestOffset(segments)))
         => logRet = LogRetOf("Read", "ErrOffsetOutOfRange", logRet.offset)

\* C4: the record read at offset O has its Offset field equal to O, whatever
\* Offset the caller had put in the record it appended.
C4_StoredOffsetIsAssigned ==
    /\ \A i \in 1 .. Len(records) : records[i].Offset = i - 1
    /\ \A p \in Procs :
          (ret[p].op = "Read" /\ ret[p].kind = "ok") => ret[p].record.Offset = ret[p].offset
    /\ \A off \in Offsets :
          LET r == ReadResult(segments, dir, off) IN
          r.kind = "ok" => r.record.Offset = off
    /\ (logRet.op = "Read" /\ logRet.kind = "ok") => logRet.record.Offset = logRet.offset

\* A Read has returned a record that its caller had appended with another Offset.
C4_Witness ==
    /\ prog = "http"
    /\ \E p \in Procs :
          /\ ret[p].op = "Read" /\ ret[p].kind = "ok"
          /\ ret[p].offset + 1 <= Len(acked)
          /\ acked[ret[p].offset + 1].given # ret[p].offset

\* The step that reopens a closed Log: NewLog on the same directory.
IsReopen == ~logOpen /\ logOpen'

\* C5 (as claimed): closing the Log and opening a new one on its directory
\* keeps LowestOffset, HighestOffset and every readable record, and the next
\* append is assigned the old HighestOffset + 1.
C5_RestartThenNextOffset ==
    [][ /\ IsReopen =>
            /\ LowestOffset(segments') = LowestOffset(segments)
            /\ HighestOffset(segments') = HighestOffset(segments)
            /\ \A off \in Offsets :
                  ReadResult(segments, dir, off).kind = "ok"
                     => ReadResult(segments', dir', off) = ReadResult(segments, dir, off)
        /\ (logCalls.reopened /\ logCalls.lowest = -1
              /\ logRet'.op = "Append" /\ logRet'.kind = "ok" /\ logAcked' # logAcked)
             => logRet'.offset = HighestOffset(segments) + 1 ]_vars

\* C5 (amended): the same, the next append being assigned the old
\* HighestOffset + 1 when the Log held a record, and 0 when it held none.
C5_Restart ==
    [][ /\ IsReopen =>
            /\ LowestOffset(segments') = LowestOffset(segments)
            /\ HighestOffset(segments') = HighestOffset(segments)
            /\ \A off \in Offsets :
                  ReadResult(segments, dir, off) = ReadResult(segments', dir', off)
        /\ (logCalls.reopened /\ logCalls.lowest = -1
              /\ logRet'.op = "Append" /\ logRet'.kind = "ok" /\ logAcked' # logAcked)
             => logRet'.offset =
                  IF logAcked = <<>> THEN 0 ELSE HighestOffset(segments) + 1 ]_vars

\* Two records were appended, the Log was closed and reopened, and a third
\* append was assigned offset 2.
C5_Witness ==
    /\ prog = "log"
    /\ logCalls.reopened
    /\ logCalls.lowest = -1
    /\ logRet = LogRetOf("Append", "ok", 2)
    /\ Len(logAcked) = 3

\* The step of a call of Truncate, lowest being logRet'.offset.
IsTruncate == logRet'.op = "Truncate" /\ logCalls'.others = logCalls.others + 1

C7_ReadBelowTruncateFails ==
    /\ (cfg = TestConfig /\ logRet.op = "Truncate") =>
          \A off \in Offsets :
             off < logRet.offset => ReadResult(segments, dir, off).kind # "ok"
    /\ (cfg = TestConfig /\ logCalls.appends = 3 /\ logCalls.lowest = 1 /\ logCalls.after = 3
          /\ logCalls.others = 1 /\ logRet.op = "Read" /\ logRet.offset = 0)
         => logRet.kind # "ok"

\* The records the Log holds, in offset order: those appended and not removed.
Held ==
    SelectSeq(logAcked, LAMBDA a : OwnerOf(segments, a.offset) # 0)

\* The decoding of a store stream: [length][record] entries, to the end.
RECURSIVE DecodeStream(_)
DecodeStream(b) ==
    IF Len(b) < LenWidth THEN <<>>
    ELSE LET n == FromBigEndian(SubSeq(b, 1, LenWidth)) IN
         IF Len(b) < LenWidth + n THEN <<>>
         ELSE <<Unmarshal(SubSeq(b, LenWidth + 1, LenWidth + n))>>
                 \o DecodeStream(SubSeq(b, LenWidth + n + 1, Len(b)))

\* C8: Reader() yields the length-prefixed encodings of the records held, in
\* append order, and decoding the stream recovers exactly those records.
C8_ReaderStream ==
    logRet.op = "Reader" =>
       /\ logRet.record.Value =
             Concat([i \in 1 .. Len(Held) |->
                       StoreEntry(Marshal([Value |-> Held[i].value, Offset |-> Held[i].offset]))])
       /\ DecodeStream(logRet.record.Value) =
             [i \in 1 .. Len(Held) |-> [Value |-> Held[i].value, Offset |-> Held[i].offset]]

\* A replicate goroutine that has not returned and has not been signalled to stop.
Replicating(t) ==
    /\ tasks[t].pc # "done"
    /\ stopChs[tasks[t].stopCh] = 0
    /\ closeCh = 0

\* C9: Join is a no-op when the peer is tracked or the replicator is closed and
\* otherwise registers the peer and starts one goroutine; at most one goroutine
\* not signalled to stop exists per peer; none is started after Close.
C9_OneTaskPerPeer ==
    /\ [](/\ \A name \in Peers :
               Cardinality({t \in 1 .. Len(tasks) : tasks[t].peer = name /\ Replicating(t)}) <= 1
          /\ \A t \in 1 .. Len(tasks) : ~tasks[t].startedClosed)
    /\ [][ /\ Len(tasks') \in {Len(tasks), Len(tasks) + 1}
           /\ Len(tasks') = Len(tasks) + 1 =>
                LET new == tasks'[Len(tasks')] IN
                /\ ~closed /\ ~closed'
                /\ new.peer \notin DOMAIN servers
                /\ new.peer \in DOMAIN servers'
                /\ servers'[new.peer] = new.stopCh
                /\ stopChs'[new.stopCh] = 0
                /\ SubSeq(tasks', 1, Len(tasks)) = tasks
           /\ closed => Len(tasks') = Len(tasks) ]_vars

\* A peer was joined, left and joined again while its first goroutine still runs.
C9_Witness ==
    /\ prog = "repl"
    /\ Len(tasks) = 2
    /\ tasks[1].peer = tasks[2].peer
    /\ tasks[1].pc # "done"
    /\ tasks[2].pc # "done"

\* C10: a peer has an entry in the peer map exactly when a goroutine replicates
\* it (one that has not returned and has not been told to stop).
C10_EntryIffTaskRunning ==
    \A name \in Peers :
       name \in DOMAIN servers <=>
          \E t \in 1 .. Len(tasks) : tasks[t].peer = name /\ Replicating(t)

\* A goroutine of peer name has returned without having been signalled (so on
\* an error of Dial, ConsumeStream or Produce) and none is left running for it.
AbortedPeer(name) ==
    /\ \E t \in 1 .. Len(tasks) :
          /\ tasks[t].peer = name
          /\ tasks[t].pc = "done"
          /\ stopChs[tasks[t].stopCh] = 0
    /\ closeCh = 0
    /\ \A t \in 1 .. Len(tasks) : tasks[t].peer = name => tasks[t].pc = "done"

\* C11: on an open Replicator, once a peer's goroutine has aborted on an error,
\* a fresh Join of that peer (no Leave in between) starts a new goroutine for it.
C11_JoinAfterAbortRestarts ==
    \A name \in Peers :
       (prog = "repl" /\ ~closed /\ Len(tasks) < MaxTasks /\ AbortedPeer(name))
          => ENABLED (Join(name) /\ Len(tasks') = Len(tasks) + 1)

\* The channels closed by a step.
ClosedByStep == {ch \in 1 .. Len(stopChs) : stopChs'[ch] # stopChs[ch]}

\* C12: Leave of a tracked peer closes that peer's stop channel once and removes
\* its entry, touching no other entry or channel; Leave of a peer that is not
\* tracked changes nothing; no stop channel is ever closed twice.
C12_LeaveClosesOnce ==
    /\ [](/\ \A ch \in 1 .. Len(stopChs) : stopChs[ch] <= 1
          /\ \A name \in Peers :
                name \notin DOMAIN servers => ~ENABLED (Leave(name) /\ vars' # vars))
    /\ [][ \A name \in Peers :
              (Leave(name) /\ name \in DOMAIN servers) =>
                 /\ ClosedByStep = {servers[name]}
                 /\ stopChs[servers[name]] = 0
                 /\ stopChs'[servers[name]] = 1
                 /\ DOMAIN servers' = DOMAIN servers \ {name}
                 /\ \A other \in DOMAIN servers' : servers'[other] = servers[other]
                 /\ <<closed, closeCh, tasks>>' = <<closed, closeCh, tasks>> ]_vars

\* One peer has left while the other is still tracked, its channel open.
C12_Witness ==
    /\ prog = "repl"
    /\ Len(stopChs) = 2
    /\ stopChs[1] = 1
    /\ stopChs[2] = 0
    /\ DOMAIN servers = {tasks[2].peer}
    /\ tasks[1].peer # tasks[2].peer
    /\ ~closed

\* What Close guarantees whatever the goroutines do: it marks the replicator
\* closed, closes r.close once and empties the peer map; from then on the map
\* stays empty, no goroutine is started and a further Close signals nothing.
CloseSafety ==
    /\ [](/\ closeCh <= 1
          /\ closed => (closeCh = 1 /\ DOMAIN servers = {})
          /\ closed => ~ENABLED (Close /\ vars' # vars))
    /\ [][ /\ (~closed /\ closed') => (closeCh' = closeCh + 1 /\ DOMAIN servers' = {})
           /\ closed => (closed' /\ Len(tasks') = Len(tasks) /\ closeCh' = closeCh) ]_vars

\* C13: Close marks the replicator closed, signals r.close once and empties the
\* peer map; afterwards the map stays empty, no goroutine starts, Close signals
\* nothing more, and every running goroutine stops at its next loop iteration.
C13_CloseStopsAll ==
    /\ CloseSafety
    /\ [][ \A t \in 1 .. Len(tasks) :
              (closeCh > 0 /\ tasks[t].pc = "loop" /\ tasks'[t].pc # "loop")
                 => tasks'[t].pc = "done" ]_vars

\* Leave has returned for the Join that started goroutine t: its stop channel is closed.
LeaveReturned(t) == stopChs[tasks[t].stopCh] > 0

\* C14: after Join("peer1") then Leave("peer1"), under every interleaving of
\* the goroutine with these calls, no record of peer1's stream is produced to
\* the local log once Leave has returned.
C14_NoProduceAfterLeave ==
    [][ \A t \in 1 .. Len(tasks) :
           LeaveReturned(t) => tasks'[t].sent = tasks[t].sent ]_vars

\* What the loop does provide: at every iteration after Leave has returned the
\* goroutine can take the stop branch, which makes it return; once it has
\* returned it produces no record.
NoProduceOnceStopObserved ==
    /\ [](\A t \in 1 .. Len(tasks) :
             (tasks[t].pc = "loop" /\ LeaveReturned(t))
                => ENABLED (SelectStop(t) /\ tasks'[t].pc = "done"))
    /\ [][ \A t \in 1 .. Len(tasks) :
              tasks[t].pc = "done"
                 => (tasks'[t].pc = "done" /\ tasks'[t].sent = tasks[t].sent) ]_vars

IsPrefix(a, b) == Len(a) <= Len(b) /\ a = SubSeq(b, 1, Len(a))

\* The records goroutine t has received and not yet produced: the one it is
\* producing, then the one its receiver holds on the records channel.
InHand(t) ==
    (IF tasks[t].pc = "produce" THEN <<tasks[t].record>> ELSE <<>>)
       \o (IF tasks[t].rpc = "send" THEN <<tasks[t].item>> ELSE <<>>)

\* C19: a goroutine that has not failed and has not stopped produces to the
\* local server the records of the peer's stream from offset 0, each once, in
\* the order received: what it produced, then what it has in hand, are the
\* records received so far; what any goroutine produced is a prefix of the
\* peer's log.
C19_ProducesInOrder ==
    \A t \in 1 .. Len(tasks) :
       /\ IsPrefix(tasks[t].sent, PeerLog)
       /\ tasks[t].pc \in {"loop", "produce"} =>
             tasks[t].sent \o InHand(t) = SubSeq(PeerLog, 1, tasks[t].n)

\* A goroutine has produced every record of the peer's log and still runs.
C19_Witness ==
    /\ prog = "repl"
    /\ \E t \in 1 .. Len(tasks) :
          /\ tasks[t].pc = "loop"
          /\ tasks[t].sent = PeerLog
          /\ Len(PeerLog) >= 2

\* C20: once a goroutine of replicate has returned (stopped by Leave or Close,
\* or on an error of Produce), its receiver goroutine terminates too: it is not
\* left blocked on the send to the records channel, which nobody receives from
\* any more.
C20_ReceiverTerminates ==
    \A t \in 1 .. Len(tasks) :
       ~(tasks[t].pc = "done" /\ tasks[t].rpc = "send")

Range(f) == {f[i] : i \in DOMAIN f}

\* Nothing is left to replicate: each goroutine has received all the peer's
\* log holds and has produced all it received.
MeshQuiet ==
    \A n \in Nodes : meshHand[n] = NoPayload /\ meshCursor[n] = Len(meshLog[PeerOf(n)])

\* The records still to replicate, over both nodes.
MeshBacklog ==
    LET todo(n) == Len(meshLog[PeerOf(n)]) - meshCursor[n]
                      + (IF meshHand[n] = NoPayload THEN 0 ELSE 1)
    IN todo("n1") + todo("n2")

\* Each record a goroutine produces locally is one more record for the peer's
\* goroutine to replicate back: the backlog is always the number of records
\* the clients produced, and never shrinks.
BacklogIsClientRecords == prog = "mesh" => MeshBacklog = meshClient

ActionOf(op) == IF op = "Produce" THEN ProduceAction ELSE ConsumeAction

\* C16: Authorize returns nil exactly when the policy allows the (subject,
\* object, action) triple, PermissionDenied when it does not, and the policy
\* engine's error when the check itself fails; a denied Produce or Consume
\* returns PermissionDenied with a nil response, and the log is the same before
\* and after it.
C16_DeniedCallsStoreNothing ==
    /\ [](srvRet.op \in {"Produce", "Consume"} =>
             LET allowed == <<srvRet.subject, ObjectWildcard, ActionOf(srvRet.op)>> \in Policy IN
             /\ (~srvRet.fails /\ ~allowed) <=> srvRet.err = "PermissionDenied"
             /\ srvRet.fails <=> srvRet.err = "EnforceError"
             /\ (~srvRet.fails /\ allowed) <=> srvRet.err \in {"nil", "ErrOffsetOutOfRange"}
             /\ srvRet.err # "nil" => (srvRet.nilResp /\ srvRet.record = NoRecord))
    /\ [][ (srvRet' # srvRet /\ srvRet'.err \in {"PermissionDenied", "EnforceError"})
              => srvLog' = srvLog ]_vars

\* nobody's Produce was denied on a log that holds a record.
C16_Witness ==
    /\ prog = "grpc"
    /\ srvRet.op = "Produce"
    /\ srvRet.subject = "nobody"
    /\ srvRet.err = "PermissionDenied"
    /\ Len(srvLog) >= 1

\* C17: on a ProduceStream the server sends one reply per record received, in
\* request order; the i-th reply carries the offset assigned to the i-th
\* record sent; with no other producer on a fresh log the replies are 0, 1, 2, ...
C17_OneReplyPerRecord ==
    /\ [](/\ Len(prodStream.replies) <= Len(prodStream.sent)
          /\ \A i \in 1 .. Len(prodStream.replies) :
                /\ prodStream.replies[i] < Len(srvLog)
                /\ srvLog[prodStream.replies[i] + 1] =
                      [Value |-> prodStream.sent[i], Offset |-> prodStream.replies[i]]
                /\ \A j \in 1 .. i - 1 : prodStream.replies[j] < prodStream.replies[i]
                /\ Len(srvLog) = StreamProduced(prodStream) => prodStream.replies[i] = i - 1)
    /\ \A i \in 1 .. MaxStreamSends :
          (Len(prodStream.sent) >= i)
             ~> (Len(prodStream.replies) >= i \/ prodStream.err # "nil")

\* Two records were sent and answered, a Produce call having taken the offset between.
C17_Witness ==
    /\ prog = "grpc"
    /\ prodStream.sent = <<(<<1>>), (<<1>>)>>
    /\ prodStream.replies = <<0, 2>>

\* C18: ConsumeStream(start) delivers the records from start on, each once, in
\* ascending offset order, also those appended after it was opened; it waits
\* for an offset not yet written instead of failing; a record appended later
\* is delivered in the end unless the stream is cancelled (or the
\* authorization fails); a cancelled stream returns.
C18_ConsumeStreamTails ==
    /\ [](/\ consStream.next = consStream.start + Len(consStream.got)
          /\ \A i \in 1 .. Len(consStream.got) :
                /\ consStream.start + i <= Len(srvLog)
                /\ consStream.got[i] = srvLog[consStream.start + i]
                /\ consStream.got[i].Offset = consStream.start + i - 1
          /\ consStream.err \in {"nil", "PermissionDenied", "EnforceError"})
    /\ \A k \in 0 .. MaxProduced + MaxStreamSends :
          (consStream.st = "run" /\ consStream.start <= k /\ k < Len(srvLog))
             ~> (consStream.next > k \/ consStream.cancelled \/ consStream.err # "nil")
    /\ consStream.cancelled ~> consStream.st = "done"

\* A stream opened at offset 1 on an empty log has received the record at
\* offset 1, appended after the stream was opened.
C18_Witness ==
    /\ prog = "grpc"
    /\ consStream.st = "run"
    /\ consStream.openLen = 0
    /\ consStream.start = 1
    /\ Len(consStream.got) >= 1

\* The segment list is sorted by baseOffset and contiguous: each segment's
\* nextOffset is the next segment's baseOffset.
Contiguous(segs) ==
    \A i \in 1 .. Len(segs) - 1 :
        /\ segs[i].baseOffset < segs[i + 1].baseOffset
        /\ segs[i].nextOffset = segs[i + 1].baseOffset

\* The offsets the successful Appends were given are 0, 1, 2, ...
Gapless(as) == \A i \in 1 .. Len(as) : as[i].offset = i - 1

\* There is an active segment, and it is the one with the highest baseOffset.
OneActive(segs) ==
    /\ segs # <<>>
    /\ \A i \in 1 .. Len(segs) - 1 : segs[i].baseOffset < ActiveSegment(segs).baseOffset

\* What Append and Truncate do keep: the list sorted and contiguous, the
\* offsets given sequential across every rollover.
SegmentsContiguousAndGapless ==
    (prog = "log" /\ ~logCalls.reopened) => (Contiguous(segments) /\ Gapless(logAcked))

\* C22: after any sequence of Append and Truncate the segments are sorted by
\* baseOffset and contiguous, exactly one segment is active and it has the
\* highest baseOffset, and the offsets Append assigns are sequential and
\* gapless across every rollover.
C22_SegmentListInvariant ==
    (prog = "log" /\ logOpen /\ ~logCalls.reopened) =>
        /\ Contiguous(segments)
        /\ OneActive(segments)
        /\ Gapless(logAcked)

\* The members of the first k events received that the loop has gone past,
\* each with its event's type, in the order the events arrived.
RECURSIVE Processed(_)
Processed(k) ==
    IF k = 0 THEN <<>>
    ELSE LET e == mship.events[k]
             n == IF k < Len(mship.events) \/ mship.member = 0 THEN Len(e.Members)
                  ELSE mship.member - 1
         IN Processed(k - 1) \o [i \in 1 .. n |-> [Type |-> e.Type, Member |-> e.Members[i]]]

\* The members processed that ask for a call: not the local node, and of an
\* event that is a join, a leave or a failure.
ToCall ==
    SelectSeq(Processed(Len(mship.events)),
              LAMBDA x : x.Member.Name # LocalName /\ x.Type # "member-update")

\* The latest processed join, leave or failure of peer p is a join.
LatestIsJoin(p) ==
    LET mine == SelectSeq(ToCall, LAMBDA x : x.Member.Name = p) IN
    mine # <<>> /\ mine[Len(mine)].Type = "member-join"

\* C21: eventHandler processes the events one at a time in arrival order; for
\* every non-local member of a join event it calls Join(name, rpc_addr tag)
\* once, for every non-local member of a failed or leave event Leave(name)
\* once, never either for the local node; an error of the handler is logged
\* and the later members and events are processed all the same.  With the
\* Replicator as handler a peer is tracked exactly when its latest processed
\* join, leave or failure is a join.
C21_EventsHandledInOrder ==
    prog = "disc" =>
        /\ Len(mship.calls) = Len(ToCall)
        /\ \A i \in 1 .. Len(mship.calls) :
              /\ mship.calls[i].name = ToCall[i].Member.Name
              /\ mship.calls[i].name # LocalName
              /\ mship.calls[i].op =
                    (IF ToCall[i].Type = "member-join" THEN "Join" ELSE "Leave")
              /\ mship.calls[i].op = "Join" =>
                    mship.calls[i].addr = ToCall[i].Member.Tags.rpc_addr
        /\ mship.logged = Cardinality({i \in 1 .. Len(mship.calls) : mship.calls[i].err})
        /\ handler.kind = "replicator" =>
              \A p \in Peers : p \in handler.servers <=> LatestIsJoin(p)

\* Two events have been processed whole, a join of the local node and a peer,
\* then a failure: the Handler, which returned an error each time, has been
\* called twice, never for the local node.
C21_Witness ==
    /\ prog = "disc"
    /\ Len(mship.events) = 2
    /\ mship.member = 0
    /\ mship.events[1].Type = "member-join"
    /\ Len(mship.events[1].Members) = 2
    /\ mship.events[1].Members[1].Name = LocalName
    /\ mship.events[2].Type = "member-failed"
    /\ Len(mship.calls) = 2
    /\ mship.logged = 2

\* The offset asked of handleConsume is one the log holds.
HoldsOffset(recs, index) == 0 <= index /\ index < Len(recs)

\* What the handlers do as claimed: an unparsable offset gets one BadRequest
\* error, a held offset its record and nothing else; a decodable produce
\* request gets the offset its record was given, and an undecodable one a
\* BadRequest error.
HandlersAnswerOtherwise ==
    prog = "web" =>
        /\ webResp.handler = "handleConsume" =>
              LET parsed == ParseInt(webResp.offset) IN
              /\ parsed.err =>
                    /\ webResp.rw.status = StatusBadRequest
                    /\ Len(webResp.rw.body) = 1
              /\ (~parsed.err /\ HoldsOffset(webLog, parsed.index)) =>
                    /\ webResp.rw.status = StatusOK
                    /\ webResp.rw.body = <<[Record |-> webLog[parsed.index + 1]]>>
                    /\ webLog[parsed.index + 1].Offset = parsed.index
        /\ webResp.handler = "handleProduce" =>
              IF webResp.body.json
                THEN /\ webResp.rw.status = StatusOK
                     /\ webResp.rw.body = <<[Offset |-> Len(webLog) - 1]>>
                     /\ webLog[Len(webLog)].Value = webResp.body.record.Value
                ELSE /\ webResp.rw.status = StatusBadRequest
                     /\ Len(webResp.rw.body) = 1

\* handleProduce leaves the log as it is when the body cannot be decoded.
UndecodableLeavesLog ==
    [][(webResp'.handler = "handleProduce" /\ ~webResp'.body.json) => webLog' = webLog]_vars

\* C23: handleConsume writes exactly one response per request: one NotFound
\* error and nothing else for a well-formed offset the log does not hold, the
\* record for a held offset, one BadRequest error for an unparsable offset;
\* handleProduce answers a decodable request with the offset the log assigned
\* and leaves the log unchanged when the body cannot be decoded.
C23_OneResponsePerRequest ==
    /\ [](HandlersAnswerOtherwise)
    /\ []((prog = "web" /\ webResp.handler = "handleConsume") =>
             LET parsed == ParseInt(webResp.offset) IN
             (~parsed.err /\ ~HoldsOffset(webLog, parsed.index)) =>
                 /\ ~webResp.rw.panicked
                 /\ webResp.rw.status = StatusNotFound
                 /\ Len(webResp.rw.body) = 1)
    /\ UndecodableLeavesLog

====
